---- MODULE Spec2Model ----
(***************************************************************************)
(* State-machine model of eslint-visitor-keys' lib/index.js: the Key       *)
(* Resolver getKeys(node) with its fast-path table and per-node WeakMap    *)
(* memo, and the Key-Set Merger unionWith(additionalKeys) with its         *)
(* JSON-keyed result memo.  Arrays and tables live in heaps so that        *)
(* reference identity, Object.freeze and caller mutation are observable.   *)
(***************************************************************************)
EXTENDS Integers, Sequences, FiniteSets, TLC

VARIABLES
    nodes,          \* the caller's arguments to getKeys: Seq of values
    lists,          \* heap of arrays: Seq of [elems, frozen]
    getKeysCache,   \* WeakMap node -> array reference
    held,           \* array references the caller has been handed
    edits,          \* how many times the caller has changed a node or an input
    inputs,         \* caller-owned additionalKeys objects
    tables,         \* heap of key tables: Seq of [entries, frozen]
    unionCache,     \* Map cacheKey -> table reference
    unionLog,       \* history of unionWith calls: {[input, content, ret, snapshot]}
    last            \* the caller-visible outcome of the latest operation

vars == <<nodes, lists, getKeysCache, held, edits, inputs, tables, unionCache, unionLog, last>>

keysVars == <<nodes, getKeysCache, held, edits>>
unionVars == <<inputs, tables, unionCache, unionLog>>

(***************************************************************************)
(* Bounds of the model.                                                    *)
(***************************************************************************)
MaxEdits == 1
MaxInputs == 2
MaxLen == 4
MaxFresh == 2

\* JavaScript's undefined, as a property value and as a missing reference.
Undefined == "undefined"
NoRef == 0

(***************************************************************************)
(* Field Filter.                                                           *)
(***************************************************************************)
KEY_BLACKLIST == {"parent", "leadingComments", "trailingComments"}

\* A plausible slip: the underscore test is forgotten.
filterKeyNoUnderscore(key) == key \notin KEY_BLACKLIST

\* A plausible slip: "type" is treated as bookkeeping too.
filterKeyDropsType(key) ==
    /\ key \notin (KEY_BLACKLIST \cup {"type"})
    /\ (Len(key) = 0 \/ SubSeq(key, 1, 1) # "_")

\* key[0] of the empty string is undefined, which is not "_".
filterKey(key) ==
    /\ key \notin KEY_BLACKLIST
    /\ (Len(key) = 0 \/ SubSeq(key, 1, 1) # "_")

(***************************************************************************)
(* Fast-Path Table: a Map from type to a frozen array, in insertion order. *)
(* Entry i's array is allocated at module load as lists[i].                *)
(***************************************************************************)
COMMON_NODE_KEYS ==
    << <<"Identifier", <<>> >>,
       <<"Literal", <<>> >>,
       <<"ThisExpression", <<>> >>,
       <<"Super", <<>> >>,
       <<"Program", <<"body">> >>,
       <<"BlockStatement", <<"body">> >>,
       <<"ExpressionStatement", <<"expression">> >>,
       <<"CallExpression", <<"callee", "arguments">> >>,
       <<"MemberExpression", <<"object", "property">> >>,
       <<"BinaryExpression", <<"left", "right">> >>,
       <<"AssignmentExpression", <<"left", "right">> >>,
       <<"VariableDeclaration", <<"declarations">> >>,
       <<"FunctionDeclaration", <<"id", "params", "body">> >>,
       <<"ArrowFunctionExpression", <<"params", "body">> >>,
       <<"IfStatement", <<"test", "consequent", "alternate">> >>,
       <<"ReturnStatement", <<"argument">> >> >>

CommonTypes == {COMMON_NODE_KEYS[i][1] : i \in DOMAIN COMMON_NODE_KEYS}

\* COMMON_NODE_KEYS.get(type): the entry's array reference, or NoRef.
CommonGet(type) ==
    IF type \in CommonTypes
    THEN CHOOSE i \in DOMAIN COMMON_NODE_KEYS : COMMON_NODE_KEYS[i][1] = type
    ELSE NoRef

Range(s) == {s[i] : i \in DOMAIN s}

(***************************************************************************)
(* Values passed to getKeys.  A value has a kind; an object or a function  *)
(* has its own enumerable property names in enumeration order and the      *)
(* value of its "type" property, which is read only when "type" is among   *)
(* the names; a number, a boolean or a string has its literal text.        *)
(***************************************************************************)
Value(kind, keys, type, text) ==
    [kind |-> kind, keys |-> keys, type |-> type, text |-> text]

\* A node: a non-null object.
Node(keys, type) == Value("object", keys, type, "")

\* typeof v
TypeOf(v) == IF v.kind = "null" THEN "object" ELSE v.kind

\* ToBoolean(v), as the && of line 60 applies it.
Truthy(v) ==
    CASE v.kind \in {"null", "undefined"} -> FALSE
      [] v.kind = "number" -> v.text # "0"
      [] v.kind = "boolean" -> v.text = "true"
      [] v.kind = "string" -> Len(v.text) > 0
      [] OTHER -> TRUE

\* A plausible slip: a resolver that insists on a type field and fails for a
\* value that has none.
ThrowsWithoutType(v) ==
    v.kind \in {"null", "undefined"} \/ "type" \notin Range(v.keys)

\* Object.keys(v) throws a TypeError for null and undefined.
ObjectKeysThrows(v) == v.kind \in {"null", "undefined"}

\* Object.keys(v): a string's own enumerable names are its indices, a
\* number or a boolean has none.
ObjectKeys(v) ==
    CASE v.kind = "string" -> [i \in 1..Len(v.text) |-> ToString(i - 1)]
      [] v.kind \in {"number", "boolean"} -> <<>>
      [] OTHER -> v.keys

\* A plausible slip: functions, valid WeakMap keys, are memoized too.
CacheableOrFunction(v) == v.kind \in {"object", "function"}

\* typeof node === "object" && node !== null
Cacheable(v) == TypeOf(v) = "object" /\ v.kind # "null"

HasType(node) == "type" \in Range(node.keys)

\* {type: T, ...} with exactly the fields the fast-path entry of T declares.
WellFormed(type) ==
    Node(<<"type">> \o COMMON_NODE_KEYS[CommonGet(type)][2], type)

IsWellFormed(node) ==
    /\ HasType(node)
    /\ node.type \in CommonTypes
    /\ node = WellFormed(node.type)

\* Well-formed nodes of fast-path types with no, one, two and three fields.
WellFormedNodes ==
    { WellFormed("Identifier"), WellFormed("Program"),
      WellFormed("CallExpression"), WellFormed("IfStatement") }

\* The node of the filter test: bookkeeping and private fields around foo, bar.
FilterNode ==
    Node(<<"parent", "leadingComments", "trailingComments", "_private",
           "type", "foo", "bar">>, "Unknown")

\* performance.js: from commonNodes, uncommonNodes, and repeatedNode.
BenchmarkNodes ==
    { Node(<<"type", "value">>, "Literal"),
      Node(<<"type", "quasis", "expressions">>, "TemplateLiteral"),
      Node(<<"type", "body", "custom">>, "Program") }

\* Further shapes: a declared field missing, no type, odd names, no fields.
OtherNodes ==
    { Node(<<"type", "test", "consequent">>, "IfStatement"),
      Node(<<"a", "b">>, Undefined),
      Node(<<"_", "", "type", "__x", "x_">>, "Odd"),
      Node(<<>>, Undefined),
      FilterNode }

NodeShapes == WellFormedNodes \cup BenchmarkNodes \cup OtherNodes

\* The caller's second node: one of a fast-path type, one that is derived.
SecondShapes == {WellFormed("Program"), Node(<<"a", "b">>, Undefined)}

\* Arguments that are null or not objects.
NonObjects ==
    { Value("null", <<>>, Undefined, ""),
      Value("undefined", <<>>, Undefined, ""),
      Value("number", <<>>, Undefined, "0"),
      Value("number", <<>>, Undefined, "42"),
      Value("boolean", <<>>, Undefined, "true"),
      Value("string", <<>>, Undefined, ""),
      Value("string", <<>>, Undefined, "ab"),
      Value("function", <<>>, Undefined, ""),
      Value("function", <<"foo">>, Undefined, "") }

\* Values a caller may try to write into an array it was handed.
PushValues == {"x"}

\* Fields the caller may add to or delete from a node, and types it may assign.
CallerFields == {"custom"}
CallerTypes == {"Program", "Unknown"}

(***************************************************************************)
(* Static Key Table (visitor-keys.js): a frozen object of frozen arrays,   *)
(* here four of its entries.  It is tables[KeysRef]; entry i's array is    *)
(* lists[KeysListRef(i)].                                                  *)
(***************************************************************************)
KEYS ==
    << <<"Program", <<"body">> >>,
       <<"AssignmentExpression", <<"left", "right">> >>,
       <<"CallExpression", <<"callee", "arguments">> >>,
       <<"MemberExpression", <<"object", "property">> >> >>

KeysTypes == {KEYS[i][1] : i \in DOMAIN KEYS}

KeysRef == 1

KeysListRef(i) == Len(COMMON_NODE_KEYS) + i

\* The authoritative field names of a type of the Static Key Table.
Authoritative(type) ==
    KEYS[CHOOSE i \in DOMAIN KEYS : KEYS[i][1] = type][2]

(***************************************************************************)
(* additionalKeys objects: the own enumerable type names in enumeration    *)
(* order, each with its array of field names.                              *)
(***************************************************************************)
Prop(type, keys) == [type |-> type, keys |-> keys]

InputShapes ==
    { <<>>,
      << Prop("NewType", <<"a", "b">>) >>,
      << Prop("NewType", <<"a", "a", "b">>) >>,
      << Prop("NewType", <<"a\",\"b">>) >>,
      << Prop("Program", <<"body", "extra">>) >>,
      << Prop("Program", <<"extra", "body">>) >>,
      << Prop("Program", <<"extra", "extra">>) >>,
      << Prop("NewType", <<"a">>), Prop("Program", <<"extra">>) >>,
      << Prop("Program", <<"extra">>), Prop("NewType", <<"a">>) >>,
      \* performance.js: additionalKeys1
      << Prop("Program", <<"body", "extra1">>),
         Prop("AssignmentExpression", <<"custom1">>),
         Prop("NewType", <<"prop1", "prop2">>) >> }

\* The types under which the caller reads or writes a table it was handed.
CallerTableTypes == {"Program", "NewType"}

(***************************************************************************)
(* Heaps.                                                                  *)
(***************************************************************************)
Array(elems, frozen) == [elems |-> elems, frozen |-> frozen]

\* Module load: Object.freeze([...]) for each fast-path entry.
CommonLists == [i \in DOMAIN COMMON_NODE_KEYS |-> Array(COMMON_NODE_KEYS[i][2], TRUE)]

\* Module load of visitor-keys.js: every array of KEYS, and KEYS, are frozen.
KeysLists == [i \in DOMAIN KEYS |-> Array(KEYS[i][2], TRUE)]

Entry(type, list) == [type |-> type, list |-> list]

Table(entries, frozen) == [entries |-> entries, frozen |-> frozen]

KeysTable == Table([i \in DOMAIN KEYS |-> Entry(KEYS[i][1], KeysListRef(i))], TRUE)

\* Own property lookup in a table's entries.
HasOwn(entries, type) == \E i \in DOMAIN entries : entries[i].type = type

Get(entries, type) ==
    entries[CHOOSE i \in DOMAIN entries : entries[i].type = type].list

\* entries[type] = list: in place when the name exists, else at the end.
Put(entries, type, list) ==
    IF HasOwn(entries, type)
    THEN [i \in DOMAIN entries |->
            IF entries[i].type = type THEN Entry(type, list) ELSE entries[i]]
    ELSE Append(entries, Entry(type, list))

\* Addresses.  The module's arrays are lists[1], lists[2], ...; the arrays
\* the caller built for its inputs are held in inputs, and array j of input
\* i has the address CallerRef(i, j), below zero.
Stride == 8

CallerRef(i, j) == 0 - (i * Stride + j)

\* The elements of the array at an address, in heap ls.
Elems(ls, ref) ==
    IF ref > 0 THEN ls[ref].elems
    ELSE inputs[(0 - ref) \div Stride][(0 - ref) % Stride].keys

\* Table t of heap ts read through its references: type -> field names.
Read(ts, ls, t) ==
    [i \in DOMAIN ts[t].entries |->
        Prop(ts[t].entries[i].type, Elems(ls, ts[t].entries[i].list))]

\* A table read through its references, now.
Deref(t) == Read(tables, lists, t)

NoCall == [op |-> "none", arg |-> 0, ret |-> NoRef, tier |-> "none",
           alloc |-> 0, seen |-> FALSE]

Call(op, arg, ret, tier, alloc, seen) ==
    [op |-> op, arg |-> arg, ret |-> ret, tier |-> tier, alloc |-> alloc, seen |-> seen]

(***************************************************************************)
(* getKeys(node)                                                           *)
(***************************************************************************)
\* Object.keys(node).filter(filterKey)
Derive(node) == SelectSeq(ObjectKeys(node), filterKey)

\* The fast-path test of line 60 and the lookup of lines 61-62.
FastPath(v) ==
    /\ Truthy(v)
    /\ TypeOf(v) = "object"
    /\ HasType(v)
    /\ CommonGet(v.type) # NoRef

\* A plausible slip: the memo lookup is lost and every miss of the fast
\* path derives again.
TierNoMemo(n) ==
    IF FastPath(nodes[n]) THEN "fast"
    ELSE IF ObjectKeysThrows(nodes[n]) THEN "throws"
    ELSE "derive"

\* A plausible slip: the memo is consulted before the fast-path table.
TierMemoFirst(n) ==
    IF n \in DOMAIN getKeysCache THEN "memo"
    ELSE IF FastPath(nodes[n]) THEN "fast"
    ELSE IF ObjectKeysThrows(nodes[n]) THEN "throws"
    ELSE "derive"

\* The tier that answers for argument n: lines 60-65, 68-70, 72-79; the
\* call throws when Object.keys does.
Tier(n) ==
    IF FastPath(nodes[n]) THEN "fast"
    ELSE IF n \in DOMAIN getKeysCache THEN "memo"
    ELSE IF ObjectKeysThrows(nodes[n]) THEN "throws"
    ELSE "derive"

\* The arrays the module or a caller's input still refers to; an array
\* derived for an argument that is not memoized is the caller's alone.
Retained ==
    (1..(Len(COMMON_NODE_KEYS) + Len(KEYS)))
        \cup Range(getKeysCache)
        \cup UNION {{tables[t].entries[j].list : j \in DOMAIN tables[t].entries} :
                        t \in DOMAIN tables}

getKeys(n) ==
    /\ n \in DOMAIN nodes
    /\ LET tier == Tier(n)
           ret == CASE tier = "fast" -> CommonGet(nodes[n].type)
                    [] tier = "memo" -> getKeysCache[n]
                    [] tier = "throws" -> NoRef
                    [] OTHER -> Len(lists) + 1
           memoize == tier = "derive" /\ Cacheable(nodes[n])
       IN  /\ (tier = "derive" /\ ~memoize) =>
                    Cardinality(DOMAIN lists \ Retained) < MaxFresh
           /\ lists' = IF tier = "derive"
                       THEN Append(lists, Array(Derive(nodes[n]), FALSE))
                       ELSE lists
           /\ getKeysCache' = IF memoize
                              THEN (n :> ret) @@ getKeysCache
                              ELSE getKeysCache
           /\ held' = IF tier = "throws" THEN held ELSE held \cup {ret}
           /\ last' = Call("getKeys", n, ret, tier, Len(lists') - Len(lists), FALSE)
    /\ UNCHANGED <<nodes, edits, unionVars>>

(***************************************************************************)
(* The caller: changing its nodes, and trying to change arrays it was       *)
(* handed.                                                                 *)
(***************************************************************************)
\* node[k] = v: a new name goes to the end of the enumeration order.
SetField(n, k) ==
    /\ n \in DOMAIN nodes
    /\ nodes[n].kind = "object"
    /\ edits < MaxEdits
    /\ edits' = edits + 1
    /\ nodes' = [nodes EXCEPT ![n].keys =
                    IF k \in Range(@) THEN @ ELSE Append(@, k)]
    /\ last' = Call("setField", n, NoRef, "none", 0, FALSE)
    /\ UNCHANGED <<lists, getKeysCache, held, unionVars>>

\* delete node[k]
DeleteField(n, k) ==
    /\ n \in DOMAIN nodes
    /\ nodes[n].kind = "object"
    /\ edits < MaxEdits
    /\ edits' = edits + 1
    /\ LET keep(x) == x # k
       IN  nodes' = [nodes EXCEPT ![n].keys = SelectSeq(@, keep)]
    /\ last' = Call("deleteField", n, NoRef, "none", 0, FALSE)
    /\ UNCHANGED <<lists, getKeysCache, held, unionVars>>

\* node.type = t
SetType(n, t) ==
    /\ n \in DOMAIN nodes
    /\ nodes[n].kind = "object"
    /\ edits < MaxEdits
    /\ edits' = edits + 1
    /\ nodes' = [nodes EXCEPT ![n] =
                    Node(IF HasType(@) THEN @.keys ELSE Append(@.keys, "type"), t)]
    /\ last' = Call("setType", n, NoRef, "none", 0, FALSE)
    /\ UNCHANGED <<lists, getKeysCache, held, unionVars>>

\* The tables the caller was handed: KEYS is exported, the others were
\* returned by unionWith.
HandedTables == {KeysRef} \cup {e.ret : e \in unionLog}

\* The arrays the caller reaches through the tables it was handed.
TableLists ==
    UNION {{tables[t].entries[j].list : j \in DOMAIN tables[t].entries} :
            t \in HandedTables}

\* What a write does to an array: nothing when it is frozen (the write is
\* rejected with a TypeError, the array is as before).
Write(l, elems) ==
    IF lists[l].frozen THEN lists ELSE [lists EXCEPT ![l].elems = elems]

Outcome(l) == IF lists[l].frozen THEN "rejected" ELSE "written"

\* list.push(v)
Push(l, v) ==
    /\ l \in held \cup TableLists
    /\ Len(lists[l].elems) < MaxLen
    /\ lists' = Write(l, Append(lists[l].elems, v))
    /\ last' = Call("push", l, NoRef, Outcome(l), 0, FALSE)
    /\ UNCHANGED <<keysVars, unionVars>>

\* list[0] = v
SetIndex(l, v) ==
    /\ l \in held \cup TableLists
    /\ lists' = Write(l, IF Len(lists[l].elems) = 0 THEN <<v>>
                         ELSE [lists[l].elems EXCEPT ![1] = v])
    /\ last' = Call("setIndex", l, NoRef, Outcome(l), 0, FALSE)
    /\ UNCHANGED <<keysVars, unionVars>>

\* list.length = 0
SetLength(l) ==
    /\ l \in held \cup TableLists
    /\ lists' = Write(l, <<>>)
    /\ last' = Call("setLength", l, NoRef, Outcome(l), 0, FALSE)
    /\ UNCHANGED <<keysVars, unionVars>>

KeysNext ==
    \/ \E n \in DOMAIN nodes, k \in CallerFields : SetField(n, k)
    \/ \E n \in DOMAIN nodes, k \in CallerFields : DeleteField(n, k)
    \/ \E n \in DOMAIN nodes, t \in CallerTypes : SetType(n, t)
    \/ \E n \in DOMAIN nodes : getKeys(n)
    \/ \E l \in held, v \in PushValues : Push(l, v)
    \/ \E l \in held, v \in PushValues : SetIndex(l, v)
    \/ \E l \in held : SetLength(l)

\* getKeys on an argument that is null or not an object, and the caller's
\* writes on what it returned.
ValuesNext ==
    \/ \E n \in DOMAIN nodes : getKeys(n)
    \/ \E l \in held, v \in PushValues : Push(l, v)
    \/ \E l \in held, v \in PushValues : SetIndex(l, v)
    \/ \E l \in held : SetLength(l)

(***************************************************************************)
(* unionWith(additionalKeys)                                               *)
(***************************************************************************)
\* JSON.stringify of a string: quotes and backslashes are escaped.
RECURSIVE Escape(_)
Escape(str) ==
    IF Len(str) = 0 THEN ""
    ELSE LET c == SubSeq(str, 1, 1)
             e == IF c = "\"" THEN "\\\"" ELSE IF c = "\\" THEN "\\\\" ELSE c
         IN  e \o Escape(SubSeq(str, 2, Len(str)))

\* A plausible slip: a hand-rolled serialisation that does not escape.
QuoteNoEscape(str) == "\"" \o str \o "\""

Quote(str) == "\"" \o Escape(str) \o "\""

\* The items of a JSON array or object, comma-separated.
RECURSIVE Join(_)
Join(items) ==
    IF Len(items) = 0 THEN ""
    ELSE IF Len(items) = 1 THEN items[1]
    ELSE items[1] \o "," \o Join(Tail(items))

\* JSON.stringify(additionalKeys)
JSONstringify(additionalKeys) ==
    "{" \o Join([i \in DOMAIN additionalKeys |->
                    Quote(additionalKeys[i].type) \o ":[" \o
                    Join([j \in DOMAIN additionalKeys[i].keys |->
                            Quote(additionalKeys[i].keys[j])]) \o "]"]) \o "}"

\* A plausible slip: the lookup is lost and every call recomputes.
LookupNever(cacheKey) == NoRef

\* unionCache.has(cacheKey) ? unionCache.get(cacheKey) : (miss)
Lookup(cacheKey) ==
    IF cacheKey \in DOMAIN unionCache THEN unionCache[cacheKey] ELSE NoRef

\* A plausible slip: the merge starts from an empty object.
EmptyCopy(t) == <<>>

\* Object.assign({}, KEYS)
ShallowCopy(t) == tables[t].entries

\* A plausible slip: concatenation instead of a Set.
AddNoDedup(keys, key) == Append(keys, key)

\* Set.prototype.add: insertion order, a value already there is not added.
Add(keys, key) == IF key \in Range(keys) THEN keys ELSE Append(keys, key)

\* keys.add(k) for each k of an array, in order.
RECURSIVE AddAll(_, _)
AddAll(keys, array) ==
    IF Len(array) = 0 THEN keys
    ELSE AddAll(Add(keys, Head(array)), Tail(array))

\* new Set(array)
NewSet(array) == AddAll(<<>>, array)

\* Object.freeze(Array.from(...))
Frozen(elems) == Array(elems, TRUE)

\* A plausible slip: the table is memoized without freezing.
TableNotFrozen(entries) == Table(entries, FALSE)

\* Object.freeze(retv)
FrozenTable(entries) == Table(entries, TRUE)

\* A plausible slip: for a type the table has, the names are merged into
\* the array the table holds, the authoritative one, instead of a new one.
RECURSIVE MergeLoopInPlace(_, _, _, _)
MergeLoopInPlace(retv, heap, additionalKeys, i) ==
    IF i > Len(additionalKeys) THEN [entries |-> retv, lists |-> heap]
    ELSE LET type == additionalKeys[i].type
             supplied == additionalKeys[i].keys
         IN  IF HasOwn(retv, type)
             THEN MergeLoopInPlace(retv,
                       [heap EXCEPT ![Get(retv, type)].elems =
                            AddAll(NewSet(supplied), @)],
                       additionalKeys, i + 1)
             ELSE MergeLoopInPlace(Put(retv, type, Len(heap) + 1),
                       Append(heap, Frozen(supplied)), additionalKeys, i + 1)

\* A plausible slip: the Set is seeded with the table's names and extended
\* with the supplied ones.
RECURSIVE MergeLoopTableFirst(_, _, _, _)
MergeLoopTableFirst(retv, heap, additionalKeys, i) ==
    IF i > Len(additionalKeys) THEN [entries |-> retv, lists |-> heap]
    ELSE LET type == additionalKeys[i].type
             supplied == additionalKeys[i].keys
             merged == IF HasOwn(retv, type)
                       THEN AddAll(NewSet(heap[Get(retv, type)].elems), supplied)
                       ELSE supplied
         IN  MergeLoopTableFirst(Put(retv, type, Len(heap) + 1),
                       Append(heap, Frozen(merged)), additionalKeys, i + 1)

\* The for loop over Object.keys(additionalKeys), from its i-th name on:
\* retv and the heap of arrays once the loop is through.
RECURSIVE MergeLoop(_, _, _, _)
MergeLoop(retv, heap, additionalKeys, i) ==
    IF i > Len(additionalKeys) THEN [entries |-> retv, lists |-> heap]
    ELSE LET type == additionalKeys[i].type
             supplied == additionalKeys[i].keys
             merged == IF HasOwn(retv, type)
                       THEN AddAll(NewSet(supplied), heap[Get(retv, type)].elems)
                       ELSE supplied
         IN  MergeLoop(Put(retv, type, Len(heap) + 1),
                       Append(heap, Frozen(merged)), additionalKeys, i + 1)

\* A plausible slip: for a type the table does not have, the caller's array
\* is installed as it is, neither copied nor frozen.
RECURSIVE MergeLoopSharing(_, _, _, _)
MergeLoopSharing(retv, heap, i, j) ==
    IF j > Len(inputs[i]) THEN [entries |-> retv, lists |-> heap]
    ELSE LET type == inputs[i][j].type
             supplied == inputs[i][j].keys
         IN  IF HasOwn(retv, type)
             THEN MergeLoopSharing(Put(retv, type, Len(heap) + 1),
                       Append(heap, Frozen(AddAll(NewSet(supplied),
                                                  Elems(heap, Get(retv, type))))),
                       i, j + 1)
             ELSE MergeLoopSharing(Put(retv, type, CallerRef(i, j)), heap, i, j + 1)

ServeSharing(i, cacheKey, cached) ==
    LET additionalKeys == inputs[i]
        m == MergeLoopSharing(ShallowCopy(KeysRef), lists, i, 1)
        hit == cached # NoRef
        ret == IF hit THEN cached ELSE Len(tables) + 1
    IN  /\ lists' = IF hit THEN lists ELSE m.lists
        /\ tables' = IF hit THEN tables ELSE Append(tables, FrozenTable(m.entries))
        /\ unionCache' = IF hit THEN unionCache
                         ELSE [k \in DOMAIN unionCache \cup {cacheKey} |->
                                 IF k = cacheKey THEN ret ELSE unionCache[k]]
        /\ unionLog' = unionLog \cup
                 {[input |-> i, content |-> additionalKeys, ret |-> ret,
                   snapshot |-> Read(tables', lists', ret)]}
        /\ last' = Call("unionWith", i, ret, IF hit THEN "memo" ELSE "merge",
                        (Len(lists') - Len(lists)) + (Len(tables') - Len(tables)),
                        \E e \in unionLog : e.content = additionalKeys)

\* The call's effect on a memo hit (cached is the table) and on a miss.
Serve(i, cacheKey, cached) ==
    LET additionalKeys == inputs[i]
        m == MergeLoop(ShallowCopy(KeysRef), lists, additionalKeys, 1)
        hit == cached # NoRef
        ret == IF hit THEN cached ELSE Len(tables) + 1
    IN  /\ lists' = IF hit THEN lists ELSE m.lists
        /\ tables' = IF hit THEN tables ELSE Append(tables, FrozenTable(m.entries))
        /\ unionCache' = IF hit THEN unionCache
                         ELSE [k \in DOMAIN unionCache \cup {cacheKey} |->
                                 IF k = cacheKey THEN ret ELSE unionCache[k]]
        /\ unionLog' = unionLog \cup
                 {[input |-> i, content |-> additionalKeys, ret |-> ret,
                   snapshot |-> Read(tables', lists', ret)]}
        /\ last' = Call("unionWith", i, ret, IF hit THEN "memo" ELSE "merge",
                        (Len(lists') - Len(lists)) + (Len(tables') - Len(tables)),
                        \E e \in unionLog : e.content = additionalKeys)

unionWith(i) ==
    /\ i \in DOMAIN inputs
    /\ \E cacheKey \in {JSONstringify(inputs[i])} :
         \E cached \in {Lookup(cacheKey)} : Serve(i, cacheKey, cached)
    /\ UNCHANGED <<keysVars, inputs>>

(***************************************************************************)
(* The caller: building inputs, and trying to change tables it was handed. *)
(***************************************************************************)
CreateInput(shape) ==
    /\ Len(inputs) < MaxInputs
    /\ inputs' = Append(inputs, shape)
    /\ last' = Call("createInput", Len(inputs) + 1, NoRef, "none", 0, FALSE)
    /\ UNCHANGED <<keysVars, lists, tables, unionCache, unionLog>>

TableOutcome(t) == IF tables[t].frozen THEN "rejected" ELSE "written"

\* table[type] = ["x"]: the array is the caller's own, new one.
TableAssign(t, type) ==
    /\ t \in HandedTables
    /\ IF tables[t].frozen
       THEN UNCHANGED <<tables, lists>>
       ELSE /\ lists' = Append(lists, Array(<<"x">>, FALSE))
            /\ tables' = [tables EXCEPT
                            ![t].entries = Put(@, type, Len(lists) + 1)]
    /\ last' = Call("tableAssign", t, NoRef, TableOutcome(t), 0, FALSE)
    /\ UNCHANGED <<keysVars, inputs, unionCache, unionLog>>

\* delete table[type]
TableDelete(t, type) ==
    /\ t \in HandedTables
    /\ LET keep(e) == e.type # type
       IN  tables' = IF tables[t].frozen THEN tables
                     ELSE [tables EXCEPT ![t].entries = SelectSeq(@, keep)]
    /\ last' = Call("tableDelete", t, NoRef, TableOutcome(t), 0, FALSE)
    /\ UNCHANGED <<keysVars, lists, inputs, unionCache, unionLog>>

\* table[type] for the tables the caller was handed and the types it uses.
CallerLists ==
    UNION {{Get(tables[t].entries, type) :
                type \in {ty \in CallerTableTypes : HasOwn(tables[t].entries, ty)}} :
            t \in HandedTables}

UnionNext ==
    \/ \E shape \in InputShapes : CreateInput(shape)
    \/ \E i \in DOMAIN inputs : unionWith(i)
    \/ \E t \in HandedTables, type \in CallerTableTypes : TableAssign(t, type)
    \/ \E t \in HandedTables, type \in CallerTableTypes : TableDelete(t, type)
    \/ \E l \in CallerLists, v \in PushValues : Push(l, v)
    \/ \E l \in CallerLists, v \in PushValues : SetIndex(l, v)
    \/ \E l \in CallerLists : SetLength(l)

\* The caller changes an input it has built: its arrays are its own and are
\* not frozen.  additionalKeys[type].push(v)
InputPush(i, j, v) ==
    /\ i \in DOMAIN inputs /\ j \in DOMAIN inputs[i]
    /\ edits < MaxEdits
    /\ Len(inputs[i][j].keys) < MaxLen
    /\ edits' = edits + 1
    /\ inputs' = [inputs EXCEPT ![i][j].keys = Append(@, v)]
    /\ last' = Call("inputPush", i, NoRef, "written", 0, FALSE)
    /\ UNCHANGED <<nodes, getKeysCache, held, lists, tables, unionCache, unionLog>>

\* additionalKeys[type][0] = v
InputSetIndex(i, j, v) ==
    /\ i \in DOMAIN inputs /\ j \in DOMAIN inputs[i]
    /\ edits < MaxEdits
    /\ edits' = edits + 1
    /\ inputs' = [inputs EXCEPT ![i][j].keys =
                        IF Len(@) = 0 THEN <<v>> ELSE [@ EXCEPT ![1] = v]]
    /\ last' = Call("inputSetIndex", i, NoRef, "written", 0, FALSE)
    /\ UNCHANGED <<nodes, getKeysCache, held, lists, tables, unionCache, unionLog>>

\* additionalKeys[type].length = 0
InputSetLength(i, j) ==
    /\ i \in DOMAIN inputs /\ j \in DOMAIN inputs[i]
    /\ edits < MaxEdits
    /\ edits' = edits + 1
    /\ inputs' = [inputs EXCEPT ![i][j].keys = <<>>]
    /\ last' = Call("inputSetLength", i, NoRef, "written", 0, FALSE)
    /\ UNCHANGED <<nodes, getKeysCache, held, lists, tables, unionCache, unionLog>>

\* additionalKeys[type] = ["x"] for a type the input does not name yet.
InputAssign(i, type) ==
    /\ i \in DOMAIN inputs
    /\ type \notin {inputs[i][j].type : j \in DOMAIN inputs[i]}
    /\ edits < MaxEdits
    /\ edits' = edits + 1
    /\ inputs' = [inputs EXCEPT ![i] = Append(@, Prop(type, <<"x">>))]
    /\ last' = Call("inputAssign", i, NoRef, "written", 0, FALSE)
    /\ UNCHANGED <<nodes, getKeysCache, held, lists, tables, unionCache, unionLog>>

\* unionWith on an input the caller keeps changing between the calls.
InputNext ==
    \/ \E i \in DOMAIN inputs : unionWith(i)
    \/ \E i \in DOMAIN inputs : \E j \in DOMAIN inputs[i], v \in PushValues :
            InputPush(i, j, v)
    \/ \E i \in DOMAIN inputs : \E j \in DOMAIN inputs[i], v \in PushValues :
            InputSetIndex(i, j, v)
    \/ \E i \in DOMAIN inputs : \E j \in DOMAIN inputs[i] : InputSetLength(i, j)
    \/ \E i \in DOMAIN inputs, type \in CallerTableTypes : InputAssign(i, type)

Next == KeysNext \/ UnionNext \/ InputNext

\* Module load: the fast-path arrays, KEYS and its arrays, empty memos.
Loaded ==
    /\ lists = CommonLists \o KeysLists
    /\ tables = <<KeysTable>>
    /\ getKeysCache = <<>>
    /\ unionCache = <<>>
    /\ held = {}
    /\ edits = 0
    /\ inputs = <<>>
    /\ unionLog = {}
    /\ last = NoCall

\* The caller has two nodes.
Init ==
    /\ Loaded
    /\ nodes \in {<<a, b>> : a \in NodeShapes, b \in SecondShapes}

\* The caller has no node: unionWith and its tables alone.
InitUnion ==
    /\ Loaded
    /\ nodes = <<>>

\* The caller has one argument, null or not an object.
InitValues ==
    /\ Loaded
    /\ nodes \in {<<v>> : v \in NonObjects}

\* The caller has no node and has built one input.
InitInput ==
    /\ lists = CommonLists \o KeysLists
    /\ tables = <<KeysTable>>
    /\ getKeysCache = <<>>
    /\ unionCache = <<>>
    /\ held = {}
    /\ edits = 0
    /\ unionLog = {}
    /\ last = NoCall
    /\ nodes = <<>>
    /\ inputs \in {<<shape>> : shape \in InputShapes}

Spec == Init /\ [][Next]_vars

SpecKeys == Init /\ [][KeysNext]_vars

SpecUnion == InitUnion /\ [][UnionNext]_vars

SpecValues == InitValues /\ [][ValuesNext]_vars

SpecInput == InitInput /\ [][InputNext]_vars

(***************************************************************************)
(* Properties of getKeys, under SpecKeys.                                  *)
(***************************************************************************)
NoDup(seq) == \A i, j \in DOMAIN seq : i # j => seq[i] # seq[j]

JustReturned == lists[last.ret].elems

\* C1: whichever tier answers, the list getKeys returns for a node holds
\* exactly the node's own enumerable names that pass the Field Filter: none
\* that is not one of them, and all of them.
C1_ReturnsExactlyTheFilteredOwnNames ==
    last.op = "getKeys" =>
        Range(JustReturned) = {k \in Range(nodes[last.arg].keys) : filterKey(k)}

\* C2: a list handed out by getKeys never changes in place: every write the
\* caller attempts on it is rejected or a no-op, so later calls see the
\* contents it was returned with.
C2_ReturnedListsNeverChange ==
    [][\A l \in held : lists'[l].elems = lists[l].elems]_vars

\* C3: for a node of a fast-path type with exactly the declared fields,
\* derivation yields the same set of names as the fast-path entry.
C3_FastPathAgreesWithDerivation ==
    (last.op = "getKeys" /\ IsWellFormed(nodes[last.arg])) =>
        Range(Derive(nodes[last.arg]))
            = Range(lists[CommonGet(nodes[last.arg].type)].elems)

\* The filter-test node has just been resolved by derivation.
C4_FilterNodeDerived ==
    /\ last.op = "getKeys"
    /\ last.tier = "derive"
    /\ nodes[last.arg] = FilterNode

\* C4 as stated: the filter-test node derives to exactly [foo, bar].
C4_FilterNodeYieldsFooBar ==
    C4_FilterNodeDerived => JustReturned = <<"foo", "bar">>

\* C4 as amended: the filter-test node derives to exactly [type, foo, bar];
\* parent, leadingComments, trailingComments and _private are not in it.
C4_FilterNodeYieldsTypeFooBar ==
    C4_FilterNodeDerived => JustReturned = <<"type", "foo", "bar">>

\* The names the Field Filter policy removes, stated apart from the code.
ReservedName(k) ==
    \/ k = "parent"
    \/ k = "leadingComments"
    \/ k = "trailingComments"

Removed(k) == ReservedName(k) \/ (Len(k) > 0 /\ Head(k) = "_")

RECURSIVE Surviving(_)
Surviving(keys) ==
    IF keys = <<>> THEN <<>>
    ELSE IF Removed(Head(keys)) THEN Surviving(Tail(keys))
    ELSE <<Head(keys)>> \o Surviving(Tail(keys))

\* C5: on the derivation path getKeys returns the node's own enumerable
\* names in enumeration order, less parent, leadingComments,
\* trailingComments and the names that start with an underscore; no other
\* name is removed and none is added.
C5_DerivationKeepsAllButReservedAndPrivate ==
    (last.op = "getKeys" /\ last.tier = "derive") =>
        JustReturned = Surviving(nodes[last.arg].keys)

\* A derivation that met "_", "__x" (removed) and "", "x_", "type" (kept).
C5_OddNamesDerived ==
    /\ last.op = "getKeys"
    /\ last.tier = "derive"
    /\ nodes[last.arg].keys = <<"_", "", "type", "__x", "x_">>
    /\ JustReturned = <<"", "type", "x_">>

(***************************************************************************)
(* Properties of unionWith, under SpecUnion.                               *)
(***************************************************************************)
Named(additionalKeys) == {additionalKeys[i].type : i \in DOMAIN additionalKeys}

\* The list a table holds for a type, read through the references.
KeyList(t, type) == Elems(lists, Get(tables[t].entries, type))

\* C6: for a type named in the input and absent from the authoritative
\* table, the resulting list is the supplied list deduplicated: the set of
\* supplied names, each exactly once.
C6_NewTypeListIsDeduplicated ==
    last.op = "unionWith" =>
        \A i \in DOMAIN inputs[last.arg] :
            LET p == inputs[last.arg][i]
            IN  p.type \notin KeysTypes =>
                    /\ Range(KeyList(last.ret, p.type)) = Range(p.keys)
                    /\ NoDup(KeyList(last.ret, p.type))

\* C7: for a type named in the input and present in the authoritative
\* table, the resulting list holds exactly the union of the authoritative
\* and the supplied names, each exactly once.
C7_ExistingTypeListIsTheUnion ==
    last.op = "unionWith" =>
        \A i \in DOMAIN inputs[last.arg] :
            LET p == inputs[last.arg][i]
            IN  p.type \in KeysTypes =>
                    /\ Range(KeyList(last.ret, p.type))
                         = Range(Authoritative(p.type)) \cup Range(p.keys)
                    /\ NoDup(KeyList(last.ret, p.type))

\* Program was supplied as [extra, extra] and merged with [body].
C7_RepeatedNameMerged ==
    /\ last.op = "unionWith"
    /\ last.tier = "merge"
    /\ inputs[last.arg] = << Prop("Program", <<"extra", "extra">>) >>
    /\ KeyList(last.ret, "Program") = <<"extra", "body">>

\* C8: unionWith calls whose inputs have the same content return the same
\* table, whatever the input instances and the calls in between; a call
\* whose content was served before is a memo hit that builds nothing.
C8_SameContentSameTable ==
    /\ \A a, b \in unionLog : a.content = b.content => a.ret = b.ret
    /\ (last.op = "unionWith" /\ last.seen) =>
            (last.tier = "memo" /\ last.alloc = 0)

\* A content that had been served through another input instance was
\* served again, from the memo.
C8_SecondInstanceServed ==
    /\ last.op = "unionWith"
    /\ last.seen
    /\ last.tier = "memo"
    /\ \E e \in unionLog :
            e.input # last.arg /\ e.content = inputs[last.arg]

\* C9: in the returned table every type not named in the input has the
\* authoritative table's list, and there is no type besides those of the
\* authoritative table and those named in the input.
C9_UnnamedEntriesAreAuthoritative ==
    last.op = "unionWith" =>
        LET entries == tables[last.ret].entries
            named == Named(inputs[last.arg])
        IN  /\ {entries[j].type : j \in DOMAIN entries} = KeysTypes \cup named
            /\ \A j \in DOMAIN entries :
                 entries[j].type \notin named =>
                    /\ entries[j].type \in KeysTypes
                    /\ entries[j].list = Get(tables[KeysRef].entries, entries[j].type)
                    /\ lists[entries[j].list].elems = Authoritative(entries[j].type)

\* A fresh merge that named one new and two authoritative types.
C9_MergedWithNewAndExisting ==
    /\ last.op = "unionWith"
    /\ last.tier = "merge"
    /\ Named(inputs[last.arg]) = {"Program", "AssignmentExpression", "NewType"}
    /\ Len(tables[last.ret].entries) = Len(KEYS) + 1

\* C10: every table unionWith has returned is the memoized one, is frozen,
\* holds a frozen list for each type its input named, and reads as it did
\* when it was returned, whatever writes the caller has attempted since.
C10_ReturnedTablesFrozenAndUnchanged ==
    \A e \in unionLog :
        /\ \E k \in DOMAIN unionCache : unionCache[k] = e.ret
        /\ tables[e.ret].frozen
        /\ \A i \in DOMAIN e.content :
                lists[Get(tables[e.ret].entries, e.content[i].type)].frozen
        /\ Deref(e.ret) = e.snapshot

\* The caller's write on a list that unionWith installed was rejected.
C10_WriteOnInstalledListRejected ==
    /\ last.op \in {"push", "setIndex", "setLength"}
    /\ last.tier = "rejected"
    /\ last.arg > Len(CommonLists) + Len(KeysLists)
    /\ \E e \in unionLog :
            \E i \in DOMAIN e.content :
                Get(tables[e.ret].entries, e.content[i].type) = last.arg

(***************************************************************************)
(* Repeated calls of getKeys, under SpecKeys.                              *)
(***************************************************************************)
\* The contents of the list a getKeys call on argument n would return now.
Resolves(n) ==
    CASE Tier(n) = "fast" -> lists[CommonGet(nodes[n].type)].elems
      [] Tier(n) = "memo" -> lists[getKeysCache[n]].elems
      [] Tier(n) = "throws" -> <<"TypeError">>
      [] OTHER -> Derive(nodes[n])

\* C11: calls of getKeys on a node with no change to the node in between
\* return lists with the same contents, whatever else happens between the
\* calls: a step that leaves every node as it is leaves what getKeys
\* returns for each node as it is.
C11_SameContentsWhileNodeUnchanged ==
    [][nodes' = nodes => \A n \in DOMAIN nodes : Resolves(n)' = Resolves(n)]_vars

(***************************************************************************)
(* getKeys on null and on values that are not objects, under SpecValues.   *)
(***************************************************************************)
\* The call failed, or it returned an empty list.
FailedOrEmpty == last.tier = "throws" \/ JustReturned = <<>>

\* C12: for an argument that is null or not an object, getKeys fails or
\* returns an empty list, every call on that argument has the same outcome
\* (the same failure, or a list with the same contents), and no Per-Node
\* Memo entry is ever recorded for it.
C12_NonObjectFailsOrEmptyAndNotMemoized ==
    /\ last.op = "getKeys" => FailedOrEmpty
    /\ last.op = "getKeys" =>
            IF last.tier = "throws" THEN Resolves(last.arg) = <<"TypeError">>
            ELSE JustReturned = Resolves(last.arg)
    /\ getKeysCache = <<>>

\* The parts of C12 that hold: the outcome is the same on every call, and
\* nothing is memoized.
C12_DeterministicAndNotMemoized ==
    /\ last.op = "getKeys" =>
            IF last.tier = "throws" THEN Resolves(last.arg) = <<"TypeError">>
            ELSE JustReturned = Resolves(last.arg)
    /\ getKeysCache = <<>>

(***************************************************************************)
(* Totality of getKeys on non-null objects, under SpecKeys.                *)
(***************************************************************************)
\* C13: getKeys never throws for a non-null object: with or without a type
\* field, with a type in or out of the Fast-Path Table, memoized or not,
\* the call completes in one of the three tiers and returns a list.
C13_NeverThrowsForObjects ==
    (last.op = "getKeys" /\ nodes[last.arg].kind = "object") =>
        /\ last.tier \in {"fast", "memo", "derive"}
        /\ last.ret \in DOMAIN lists
        /\ last.ret \in held

\* An object without a type field, and without any field, was resolved.
C13_TypelessObjectResolved ==
    /\ last.op = "getKeys"
    /\ nodes[last.arg].kind = "object"
    /\ nodes[last.arg].keys = <<>>
    /\ last.tier = "derive"
    /\ JustReturned = <<>>

(***************************************************************************)
(* The tiers of getKeys, under SpecKeys.                                   *)
(***************************************************************************)
\* C15: a Per-Node Memo entry, once recorded, is never removed, overwritten
\* or recomputed: every step keeps each recorded entry, and a getKeys call
\* on a memoized node whose type is not in the Fast-Path Table returns the
\* recorded list instance and builds nothing, also after the caller has
\* changed the node's fields.
C15_MemoEntryIsPermanent ==
    [][\A n \in DOMAIN getKeysCache :
          /\ n \in DOMAIN getKeysCache'
          /\ getKeysCache'[n] = getKeysCache[n]
          /\ (last'.op = "getKeys" /\ last'.arg = n /\ ~FastPath(nodes'[n])) =>
                /\ last'.tier = "memo"
                /\ last'.ret = getKeysCache[n]
                /\ last'.alloc = 0]_vars

\* A memoized node was given a field, and the call after that returned the
\* recorded list, which does not have the field.
C15_StaleEntryServed ==
    /\ last.op = "getKeys"
    /\ last.tier = "memo"
    /\ last.ret = getKeysCache[last.arg]
    /\ "custom" \in Range(nodes[last.arg].keys)
    /\ "custom" \notin Range(JustReturned)

\* C16: the fast path comes first and has no effect: a getKeys call on an
\* object whose current type is in the Fast-Path Table returns that table's
\* list instance, also when the node has a Per-Node Memo entry from a call
\* made when its type was another, and it leaves the Per-Node Memo and the
\* arrays as they are.
C16_FastPathFirstAndPure ==
    [][(last'.op = "getKeys" /\ FastPath(nodes'[last'.arg])) =>
          /\ last'.tier = "fast"
          /\ last'.ret = CommonGet(nodes'[last'.arg].type)
          /\ getKeysCache' = getKeysCache
          /\ lists' = lists]_vars

\* A node memoized under another type was resolved by the fast path, and
\* the recorded list is not the one returned.
C16_FastPathOverMemo ==
    /\ last.op = "getKeys"
    /\ last.tier = "fast"
    /\ last.arg \in DOMAIN getKeysCache
    /\ getKeysCache[last.arg] # last.ret

(***************************************************************************)
(* The Static Key Table and the merge, under SpecUnion.                    *)
(***************************************************************************)
\* C17: the authoritative Static Key Table is never changed: it keeps its
\* types, each with the same list instance, and each list keeps its
\* contents; unionWith writes into its own copy and its own new arrays.
C17_StaticKeyTableUnchanged ==
    /\ tables[KeysRef] = KeysTable
    /\ \A i \in DOMAIN KEYS : lists[KeysListRef(i)] = KeysLists[i]

\* A merge gave Program a list other than the authoritative one, in another
\* array.
C17_MergedAnAuthoritativeType ==
    /\ last.op = "unionWith"
    /\ last.tier = "merge"
    /\ "Program" \in Named(inputs[last.arg])
    /\ KeyList(last.ret, "Program") # Authoritative("Program")
    /\ Get(tables[last.ret].entries, "Program")
            # Get(tables[KeysRef].entries, "Program")

\* A table or an input as a mapping from type to set of field names.
AsSets(props) == {<<props[i].type, Range(props[i].keys)>> : i \in DOMAIN props}

\* What a merge of the authoritative table with an input is, as a mapping
\* from type to set of field names, stated apart from the code.
ExpectedNames(additionalKeys, type) ==
    (IF type \in KeysTypes THEN Range(Authoritative(type)) ELSE {})
        \cup UNION {Range(additionalKeys[i].keys) :
                        i \in {j \in DOMAIN additionalKeys :
                                    additionalKeys[j].type = type}}

ExpectedMapping(additionalKeys) ==
    {<<type, ExpectedNames(additionalKeys, type)>> :
        type \in KeysTypes \cup Named(additionalKeys)}

\* C18: every table unionWith has returned, served from the Merge Result
\* Memo or freshly built, maps each type to the set of field names a merge
\* of the authoritative table with the call's input has: the memo never
\* serves the table of another content.  Inputs that are equal as mappings
\* from type to set of names were given tables equal as such mappings.
C18_ServedTableIsTheMergeOfItsInput ==
    /\ \A e \in unionLog : AsSets(e.snapshot) = ExpectedMapping(e.content)
    /\ last.op = "unionWith" =>
            AsSets(Deref(last.ret)) = ExpectedMapping(inputs[last.arg])
    /\ \A a, b \in unionLog :
            AsSets(a.content) = AsSets(b.content) =>
                AsSets(a.snapshot) = AsSets(b.snapshot)

\* Two inputs that differ only in order were given two tables, equal as
\* mappings, and one of them was served from the memo again.
C18_ReorderedInputsServed ==
    /\ last.op = "unionWith"
    /\ last.tier = "memo"
    /\ \E a, b \in unionLog :
            /\ a.content # b.content
            /\ AsSets(a.content) = AsSets(b.content)
            /\ a.ret # b.ret
            /\ AsSets(a.snapshot) = AsSets(b.snapshot)

\* A list with every repeat of a name after its first occurrence dropped.
RECURSIVE FirstOccurrences(_)
FirstOccurrences(seq) ==
    IF seq = <<>> THEN <<>>
    ELSE LET front == SubSeq(seq, 1, Len(seq) - 1)
             x == seq[Len(seq)]
         IN  IF x \in Range(front) THEN FirstOccurrences(front)
             ELSE Append(FirstOccurrences(front), x)

\* The names of a list that are not in a set, in the list's order.
Without(seq, names) ==
    LET keep(x) == x \notin names IN SelectSeq(seq, keep)

\* C19: for a type named in the input and present in the authoritative
\* table, the merged list is the supplied names in supplied order with
\* later repeats dropped, then the authoritative names that were not
\* supplied, in authoritative order; for a type absent from the
\* authoritative table the names are in the supplied order.
C19_SuppliedFirstThenAuthoritative ==
    last.op = "unionWith" =>
        \A i \in DOMAIN inputs[last.arg] :
            LET p == inputs[last.arg][i]
            IN  IF p.type \in KeysTypes
                THEN KeyList(last.ret, p.type)
                        = FirstOccurrences(p.keys)
                            \o Without(Authoritative(p.type), Range(p.keys))
                ELSE FirstOccurrences(KeyList(last.ret, p.type))
                        = FirstOccurrences(p.keys)

\* Program was supplied as [extra, body] and merged with [body]: extra
\* comes first.
C19_SuppliedNameBeforeAuthoritative ==
    /\ last.op = "unionWith"
    /\ last.tier = "merge"
    /\ inputs[last.arg] = << Prop("Program", <<"extra", "body">>) >>
    /\ KeyList(last.ret, "Program") = <<"extra", "body">>

(***************************************************************************)
(* unionWith and changes to its input, under SpecInput.                    *)
(***************************************************************************)
\* C20: a table unionWith returned shares no array with its input: none of
\* its entries is an array of the caller's, and whatever the caller does to
\* the input afterwards, every table returned so far is the memoized one
\* and reads as it did when it was returned; a call on the changed input
\* returns the merge for the content the input has at that call.
C20_TableIndependentOfItsInput ==
    /\ \A t \in DOMAIN tables :
            \A j \in DOMAIN tables[t].entries : tables[t].entries[j].list > 0
    /\ \A e \in unionLog :
            /\ Deref(e.ret) = e.snapshot
            /\ unionCache[JSONstringify(e.content)] = e.ret
    /\ last.op = "unionWith" =>
            /\ AsSets(Deref(last.ret)) = ExpectedMapping(inputs[last.arg])
            /\ \A i \in DOMAIN inputs[last.arg] :
                    LET p == inputs[last.arg][i]
                    IN  p.type \notin KeysTypes => KeyList(last.ret, p.type) = p.keys

\* An input was served, then changed (the array of a new type among the
\* changes), then served again: with another table, while the first table
\* reads as before.
C20_ChangedInputServedAgain ==
    /\ last.op = "unionWith"
    /\ last.tier = "merge"
    /\ \E e \in unionLog :
            /\ e.input = last.arg
            /\ e.ret # last.ret
            /\ \E j \in DOMAIN e.content :
                    /\ e.content[j].type \notin KeysTypes
                    /\ j \in DOMAIN inputs[last.arg]
                    /\ e.content[j].keys # inputs[last.arg][j].keys
            /\ Deref(e.ret) = e.snapshot

====
